---------------------------- MODULE Spec2Model ----------------------------
(***************************************************************************)
(* Model of the tempest-influxdb decode / dispatch / encode pipeline:      *)
(* tempest.Parse (JSON envelope -> influx.Data) and influx.Data.Marshal    *)
(* (influx.Data -> line protocol text).                                    *)
(*                                                                         *)
(* Go strings are sequences of byte codes, so that sort.Strings compares   *)
(* them as Go does.  JSON numbers and float64 values are counted in        *)
(* quarters (the integer q stands for q/4): every such value is exact in   *)
(* binary floating point, and math.Round and the %.2f verb are exact on    *)
(* them.                                                                   *)
(***************************************************************************)
EXTENDS Integers, Sequences, FiniteSets, TLC

VARIABLES cfg, b, dp, m, err, line, pc, calls, viper,
          sigCh, ctx, signalled, logged, p

\* the state of main: the signal channel, the run context, where main was
\* when a signal first arrived, and the messages logged
mainVars == <<sigCh, ctx, signalled, logged>>

vars == <<cfg, b, dp, m, err, line, pc, calls, viper, mainVars, p>>

-----------------------------------------------------------------------------
(* Bounds of the model *)

\* longest inner observation array of a generated packet
MaxObsLen == 19
\* longest "ob" / "evt" array of a generated packet
MaxEvtLen == 4
\* most tags, and most fields, of a Record handed to Marshal directly
MaxPairs == 2
\* calls of Parse in flight at once
NumCalls == 2
\* largest PrecipType value, and the negative of the smallest
MaxPrecip == 60

-----------------------------------------------------------------------------
(* Strings *)

\* the string literals of the parser, as bytes
Lit ==
  [
    weather |-> <<119, 101, 97, 116, 104, 101, 114>>,
    weather_events |-> <<119, 101, 97, 116, 104, 101, 114, 95, 101, 118, 101, 110, 116, 115>>,
    device_status |-> <<100, 101, 118, 105, 99, 101, 95, 115, 116, 97, 116, 117, 115>>,
    hub_status |-> <<104, 117, 98, 95, 115, 116, 97, 116, 117, 115>>,
    obs_st |-> <<111, 98, 115, 95, 115, 116>>,
    rapid_wind |-> <<114, 97, 112, 105, 100, 95, 119, 105, 110, 100>>,
    evt_precip |-> <<101, 118, 116, 95, 112, 114, 101, 99, 105, 112>>,
    evt_strike |-> <<101, 118, 116, 95, 115, 116, 114, 105, 107, 101>>,
    obs_air |-> <<111, 98, 115, 95, 97, 105, 114>>,
    obs_sky |-> <<111, 98, 115, 95, 115, 107, 121>>,
    station |-> <<115, 116, 97, 116, 105, 111, 110>>,
    event_type |-> <<101, 118, 101, 110, 116, 95, 116, 121, 112, 101>>,
    sensor_type |-> <<115, 101, 110, 115, 111, 114, 95, 116, 121, 112, 101>>,
    device |-> <<100, 101, 118, 105, 99, 101>>,
    hub |-> <<104, 117, 98>>,
    rain_start |-> <<114, 97, 105, 110, 95, 115, 116, 97, 114, 116>>,
    lightning_strike |-> <<108, 105, 103, 104, 116, 110, 105, 110, 103, 95, 115, 116, 114, 105, 107, 101>>,
    air |-> <<97, 105, 114>>,
    sky |-> <<115, 107, 121>>,
    battery |-> <<98, 97, 116, 116, 101, 114, 121>>,
    dew_point |-> <<100, 101, 119, 95, 112, 111, 105, 110, 116>>,
    illuminance |-> <<105, 108, 108, 117, 109, 105, 110, 97, 110, 99, 101>>,
    p |-> <<112>>,
    precipitation |-> <<112, 114, 101, 99, 105, 112, 105, 116, 97, 116, 105, 111, 110>>,
    precipitation_type |-> <<112, 114, 101, 99, 105, 112, 105, 116, 97, 116, 105, 111, 110, 95, 116, 121, 112, 101>>,
    solar_radiation |-> <<115, 111, 108, 97, 114, 95, 114, 97, 100, 105, 97, 116, 105, 111, 110>>,
    strike_count |-> <<115, 116, 114, 105, 107, 101, 95, 99, 111, 117, 110, 116>>,
    strike_distance |-> <<115, 116, 114, 105, 107, 101, 95, 100, 105, 115, 116, 97, 110, 99, 101>>,
    temp |-> <<116, 101, 109, 112>>,
    uv |-> <<117, 118>>,
    wind_avg |-> <<119, 105, 110, 100, 95, 97, 118, 103>>,
    wind_direction |-> <<119, 105, 110, 100, 95, 100, 105, 114, 101, 99, 116, 105, 111, 110>>,
    wind_gust |-> <<119, 105, 110, 100, 95, 103, 117, 115, 116>>,
    wind_lull |-> <<119, 105, 110, 100, 95, 108, 117, 108, 108>>,
    rapid_wind_speed |-> <<114, 97, 112, 105, 100, 95, 119, 105, 110, 100, 95, 115, 112, 101, 101, 100>>,
    rapid_wind_direction |-> <<114, 97, 112, 105, 100, 95, 119, 105, 110, 100, 95, 100, 105, 114, 101, 99, 116, 105, 111, 110>>,
    rain_start_event |-> <<114, 97, 105, 110, 95, 115, 116, 97, 114, 116, 95, 101, 118, 101, 110, 116>>,
    lightning_distance |-> <<108, 105, 103, 104, 116, 110, 105, 110, 103, 95, 100, 105, 115, 116, 97, 110, 99, 101>>,
    lightning_energy |-> <<108, 105, 103, 104, 116, 110, 105, 110, 103, 95, 101, 110, 101, 114, 103, 121>>,
    air_temperature |-> <<97, 105, 114, 95, 116, 101, 109, 112, 101, 114, 97, 116, 117, 114, 101>>,
    humidity |-> <<104, 117, 109, 105, 100, 105, 116, 121>>,
    pressure |-> <<112, 114, 101, 115, 115, 117, 114, 101>>,
    daily_rain |-> <<100, 97, 105, 108, 121, 95, 114, 97, 105, 110>>,
    device_uptime |-> <<100, 101, 118, 105, 99, 101, 95, 117, 112, 116, 105, 109, 101>>,
    device_voltage |-> <<100, 101, 118, 105, 99, 101, 95, 118, 111, 108, 116, 97, 103, 101>>,
    device_rssi |-> <<100, 101, 118, 105, 99, 101, 95, 114, 115, 115, 105>>,
    device_hub_rssi |-> <<100, 101, 118, 105, 99, 101, 95, 104, 117, 98, 95, 114, 115, 115, 105>>,
    sensor_status |-> <<115, 101, 110, 115, 111, 114, 95, 115, 116, 97, 116, 117, 115>>,
    firmware_revision |-> <<102, 105, 114, 109, 119, 97, 114, 101, 95, 114, 101, 118, 105, 115, 105, 111, 110>>,
    hub_uptime |-> <<104, 117, 98, 95, 117, 112, 116, 105, 109, 101>>,
    hub_rssi |-> <<104, 117, 98, 95, 114, 115, 115, 105>>,
    sequence |-> <<115, 101, 113, 117, 101, 110, 99, 101>>,
    reset_flags |-> <<114, 101, 115, 101, 116, 95, 102, 108, 97, 103, 115>>
  ]

Comma == <<44>>
Space == <<32>>
Equals == <<61>>
Newline == <<10>>
Dot == <<46>>
Minus == <<45>>

\* Go's string comparison s < t: byte-wise, a proper prefix is smaller
RECURSIVE StrLess(_, _)
StrLess(s, t) ==
  IF t = <<>> THEN FALSE
  ELSE IF s = <<>> THEN TRUE
  ELSE IF Head(s) # Head(t) THEN Head(s) < Head(t)
  ELSE StrLess(Tail(s), Tail(t))

\* the decimal digits of a natural number
RECURSIVE Digits(_)
Digits(n) ==
  IF n < 10 THEN <<48 + n>> ELSE Digits(n \div 10) \o <<48 + (n % 10)>>

\* fmt's %d verb
FmtD(n) == IF n < 0 THEN Minus \o Digits(-n) ELSE Digits(n)

\* fmt's %.2f verb on q/4
FmtF2(q) ==
  LET a == IF q < 0 THEN -q ELSE q
      frac == (a % 4) * 25
  IN  (IF q < 0 THEN Minus ELSE <<>>) \o Digits(a \div 4) \o Dot
        \o <<48 + (frac \div 10), 48 + (frac % 10)>>

\* math.Round on q/4: to the nearest integer, halves away from zero
Round(q) == IF q < 0 THEN -((2 - q) \div 4) ELSE (q + 2) \div 4

\* the conversion int64(x) on q/4: truncation toward zero
ToInt64(q) == IF q < 0 THEN -((-q) \div 4) ELSE q \div 4

\* strings.Join
RECURSIVE Join(_, _)
Join(elems, sep) ==
  IF elems = <<>> THEN <<>>
  ELSE IF Len(elems) = 1 THEN elems[1]
  ELSE elems[1] \o sep \o Join(Tail(elems), sep)

-----------------------------------------------------------------------------
(* influx.Data *)

\* the nil *influx.Data
NilData ==
  [nil |-> TRUE, Timestamp |-> 0, Name |-> <<>>, Bucket |-> <<>>,
   Tags |-> <<>>, Fields |-> <<>>]

\* influx.New: a Data with two empty maps
New ==
  [nil |-> FALSE, Timestamp |-> 0, Name |-> <<>>, Bucket |-> <<>>,
   Tags |-> <<>>, Fields |-> <<>>]

\* the map assignment mp[k] = v
Put(mp, k, v) == [x \in DOMAIN mp \cup {k} |-> IF x = k THEN v ELSE mp[x]]

-----------------------------------------------------------------------------
(* Errors: nil, or the chain built by fmt.Errorf.  "is" holds the sentinel *)
(* errors that errors.Is finds in the chain (those wrapped with %w), "ops" *)
(* the contexts added around it, outermost first, "counts" the numbers      *)
(* formatted into the message.                                              *)

NoError == [nil |-> TRUE, is |-> {}, ops |-> <<>>, counts |-> <<>>]

\* line 20: the sentinel, wrapped by %w with the message of the extractor
InsufficientData(counts) ==
  [nil |-> FALSE, is |-> {"ErrInsufficientData"}, ops |-> <<>>, counts |-> counts]

\* line 390: the decoder's error, formatted with %v and so not wrapped
UnmarshalError ==
  [nil |-> FALSE, is |-> {}, ops |-> <<"ERROR Could not Unmarshal">>, counts |-> <<>>]

\* the wrapping as it would be with the verb %v: the chain is lost
Wrap_Verb(op, e) == [e EXCEPT !.ops = <<op>> \o @, !.is = {}]

\* fmt.Errorf(op + ": %w", e)
Wrap(op, e) == [e EXCEPT !.ops = <<op>> \o @]

-----------------------------------------------------------------------------
(* JSON documents.  A value has a kind k and, by kind, a number n (in      *)
(* quarters), a string s, the elements a of an array, or the members o of  *)
(* an object.  A payload is the first JSON value of b[:n] (or the fact     *)
(* that the bytes do not start with one) and whether bytes other than      *)
(* white space follow that value.                                          *)

JNull == [k |-> "null", n |-> 0, s |-> <<>>, a |-> <<>>, o |-> <<>>]
JNum(q) == [k |-> "num", n |-> q, s |-> <<>>, a |-> <<>>, o |-> <<>>]
JStr(str) == [k |-> "str", n |-> 0, s |-> str, a |-> <<>>, o |-> <<>>]
JArr(elems) == [k |-> "arr", n |-> 0, s |-> <<>>, a |-> elems, o |-> <<>>]
JObj(members) == [k |-> "obj", n |-> 0, s |-> <<>>, a |-> <<>>, o |-> members]

\* the member of an object under a key; an absent member decodes as null does
Member(v, key) == IF key \in DOMAIN v.o THEN v.o[key] ELSE JNull

\* the Go type of each field of Report, by its json tag (lines 47-67)
ReportShape ==
  [serial_number |-> "string", type |-> "string", hub_sn |-> "string",
   obs |-> "obs", ob |-> "ob", evt |-> "floats",
   firmware_revision |-> "int", uptime |-> "int", timestamp |-> "int",
   reset_flags |-> "string", seq |-> "int",
   fs |-> "floats", radio_stats |-> "floats", mqtt_stats |-> "floats",
   voltage |-> "float", rssi |-> "float", hub_rssi |-> "float",
   sensor_status |-> "int", debug |-> "int"]

\* encoding/json accepts the value for a float64 (null leaves the zero value)
FitsFloat(v) == v.k \in {"num", "null"}

\* encoding/json accepts the value for a field of the given Go type: null is
\* accepted everywhere and changes nothing; an int takes a whole number only
\* (one written without fraction or exponent, the only way they occur here);
\* a fixed-size array skips the elements beyond its size without decoding them
Fits(type, v) ==
  \/ v.k = "null"
  \/ type = "string" /\ v.k = "str"
  \/ type = "float" /\ v.k = "num"
  \/ type = "int" /\ v.k = "num" /\ v.n % 4 = 0
  \/ type = "floats" /\ v.k = "arr" /\ \A i \in 1..Len(v.a) : FitsFloat(v.a[i])
  \/ type = "ob" /\ v.k = "arr"
       /\ \A i \in 1..Len(v.a) : i <= 3 => FitsFloat(v.a[i])
  \/ type = "obs" /\ v.k = "arr"
       /\ (Len(v.a) >= 1 =>
             \/ v.a[1].k = "null"
             \/ /\ v.a[1].k = "arr"
                /\ \A i \in 1..Len(v.a[1].a) : FitsFloat(v.a[1].a[i]))

DecString(v) == IF v.k = "str" THEN v.s ELSE <<>>
DecNum(v) == IF v.k = "num" THEN v.n ELSE 0
DecInt(v) == IF v.k = "num" /\ v.n % 4 = 0 THEN v.n \div 4 ELSE 0
\* a []float64: nil unless the value is an array; a null element stays 0
DecFloats(v) ==
  IF v.k = "arr" THEN [i \in 1..Len(v.a) |-> DecNum(v.a[i])] ELSE <<>>
\* Ob [3]float64: always three elements, the missing ones 0, the extra dropped
DecOb(v) ==
  [i \in 1..3 |-> IF v.k = "arr" /\ i <= Len(v.a) THEN DecNum(v.a[i]) ELSE 0]
\* an Obs that ends up holding the last inner array
DecObs0_Last(v) ==
  IF v.k = "arr" /\ Len(v.a) >= 1 THEN DecFloats(v.a[Len(v.a)]) ELSE <<>>
\* Obs [1][]float64: the one element Obs[0]; more inner arrays are dropped
DecObs0(v) ==
  IF v.k = "arr" /\ Len(v.a) >= 1 THEN DecFloats(v.a[1]) ELSE <<>>

\* the Report left by decoder.Decode(&report) from a JSON value
ReportOf(v) ==
  [StationSerial |-> DecString(Member(v, "serial_number")),
   ReportType |-> DecString(Member(v, "type")),
   HubSerial |-> DecString(Member(v, "hub_sn")),
   Obs0 |-> DecObs0(Member(v, "obs")),
   Ob |-> DecOb(Member(v, "ob")),
   Evt |-> DecFloats(Member(v, "evt")),
   FirmwareRevision |-> DecInt(Member(v, "firmware_revision")),
   Uptime |-> DecInt(Member(v, "uptime")),
   Timestamp |-> DecInt(Member(v, "timestamp")),
   ResetFlags |-> DecString(Member(v, "reset_flags")),
   Seq |-> DecInt(Member(v, "seq")),
   Voltage |-> DecNum(Member(v, "voltage")),
   RSSI |-> DecNum(Member(v, "rssi")),
   HubRSSI |-> DecNum(Member(v, "hub_rssi")),
   SensorStatus |-> DecInt(Member(v, "sensor_status"))]

\* json.NewDecoder(bytes.NewReader(b[:n])).Decode(&report) fails: the bytes do
\* not start with a JSON value, or the value is neither an object nor null, or
\* a member named by a json tag has a value its Go type does not take.  Bytes
\* after the first value are not read.
DecodeFails(doc) ==
  \/ ~doc.syntax
  \/ doc.top.k \notin {"obj", "null"}
  \/ \E key \in DOMAIN doc.top.o :
       key \in DOMAIN ReportShape /\ ~Fits(ReportShape[key], doc.top.o[key])

-----------------------------------------------------------------------------
(* The extractors.  Each takes the Data made by Parse and gives back the   *)
(* error it returns and the Data as it has left it (the code writes        *)
(* through the pointer m).  d is what dewpoint.Calculate returned.         *)

\* parseObservation (obs_st)
parseObservation(c, report, mm, d) ==
  IF Len(report.Obs0) < 18
  THEN [err |-> InsufficientData(<<18, Len(report.Obs0)>>), m |-> mm]
  ELSE
    LET data == report.Obs0 IN
    [err |-> NoError,
     m |-> [mm EXCEPT
       !.Timestamp = ToInt64(data[1]),
       !.Fields =
            (Lit.battery :> FmtF2(data[17]))
         @@ (Lit.dew_point :> FmtF2(d.val))
         @@ (Lit.illuminance :> FmtD(Round(data[10])))
         @@ (Lit.p :> FmtF2(data[7]))
         @@ (Lit.precipitation :> FmtF2(data[13]))
         @@ (Lit.precipitation_type :> FmtD(Round(data[14])))
         @@ (Lit.solar_radiation :> FmtD(Round(data[12])))
         @@ (Lit.strike_count :> FmtD(Round(data[16])))
         @@ (Lit.strike_distance :> FmtD(Round(data[15])))
         @@ (Lit.temp :> FmtF2(data[8]))
         @@ (Lit.uv :> FmtF2(data[11]))
         @@ (Lit.wind_avg :> FmtF2(data[3]))
         @@ (Lit.wind_direction :> FmtD(Round(data[5])))
         @@ (Lit.wind_gust :> FmtF2(data[4]))
         @@ (Lit.wind_lull :> FmtF2(data[2]))]]

\* parseRapidWind as it would be with int(x) for int(math.Round(x))
parseRapidWind_Truncates(c, report, mm, d) ==
  IF Len(report.Ob) < 3
  THEN [err |-> InsufficientData(<<3, Len(report.Ob)>>), m |-> mm]
  ELSE
    [err |-> NoError,
     m |-> [mm EXCEPT
       !.Timestamp = ToInt64(report.Ob[1]),
       !.Fields =
            (Lit.rapid_wind_speed :> FmtF2(report.Ob[2]))
         @@ (Lit.rapid_wind_direction :> FmtD(ToInt64(report.Ob[3])))]]

\* parseRapidWind: report.Ob is a [3]float64, so its length is always 3
parseRapidWind(c, report, mm, d) ==
  IF Len(report.Ob) < 3
  THEN [err |-> InsufficientData(<<3, Len(report.Ob)>>), m |-> mm]
  ELSE
    [err |-> NoError,
     m |-> [mm EXCEPT
       !.Timestamp = ToInt64(report.Ob[1]),
       !.Fields =
            (Lit.rapid_wind_speed :> FmtF2(report.Ob[2]))
         @@ (Lit.rapid_wind_direction :> FmtD(Round(report.Ob[3])))]]

\* parseRainStartEvent (evt_precip)
parseRainStartEvent(c, report, mm, d) ==
  IF Len(report.Evt) < 1
  THEN [err |-> InsufficientData(<<1>>), m |-> mm]
  ELSE
    [err |-> NoError,
     m |-> [mm EXCEPT
       !.Timestamp = ToInt64(report.Evt[1]),
       !.Fields = (Lit.rain_start_event :> <<49>>)]]

\* parseLightningStrike as it would be with <= for < in the length check
parseLightningStrike_OffByOne(c, report, mm, d) ==
  IF Len(report.Evt) <= 3
  THEN [err |-> InsufficientData(<<3>>), m |-> mm]
  ELSE
    [err |-> NoError,
     m |-> [mm EXCEPT
       !.Timestamp = ToInt64(report.Evt[1]),
       !.Fields =
            (Lit.lightning_distance :> FmtD(Round(report.Evt[2])))
         @@ (Lit.lightning_energy :> FmtD(Round(report.Evt[3])))]]

\* parseLightningStrike (evt_strike)
parseLightningStrike(c, report, mm, d) ==
  IF Len(report.Evt) < 3
  THEN [err |-> InsufficientData(<<3>>), m |-> mm]
  ELSE
    [err |-> NoError,
     m |-> [mm EXCEPT
       !.Timestamp = ToInt64(report.Evt[1]),
       !.Fields =
            (Lit.lightning_distance :> FmtD(Round(report.Evt[2])))
         @@ (Lit.lightning_energy :> FmtD(Round(report.Evt[3])))]]

\* parseAirObservation as it would be with the error of dewpoint.Calculate
\* returned (wrapped in ErrDewPointCalculation) in place of being logged
parseAirObservation_Propagates(c, report, mm, d) ==
  IF Len(report.Obs0) < 8
  THEN [err |-> InsufficientData(<<8, Len(report.Obs0)>>), m |-> mm]
  ELSE IF d.failed
  THEN [err |-> [nil |-> FALSE, is |-> {"ErrDewPointCalculation"},
                 ops |-> <<>>, counts |-> <<>>],
        m |-> mm]
  ELSE
    LET data == report.Obs0 IN
    [err |-> NoError,
     m |-> [mm EXCEPT
       !.Timestamp = ToInt64(data[1]),
       !.Fields =
            (Lit.air_temperature :> FmtF2(data[3]))
         @@ (Lit.battery :> FmtF2(data[7]))
         @@ (Lit.dew_point :> FmtF2(d.val))
         @@ (Lit.humidity :> FmtF2(data[4]))
         @@ (Lit.pressure :> FmtF2(data[2]))
         @@ (Lit.strike_count :> FmtD(Round(data[5])))
         @@ (Lit.strike_distance :> FmtD(Round(data[6])))]]

\* parseAirObservation (obs_air)
parseAirObservation(c, report, mm, d) ==
  IF Len(report.Obs0) < 8
  THEN [err |-> InsufficientData(<<8, Len(report.Obs0)>>), m |-> mm]
  ELSE
    LET data == report.Obs0 IN
    [err |-> NoError,
     m |-> [mm EXCEPT
       !.Timestamp = ToInt64(data[1]),
       !.Fields =
            (Lit.air_temperature :> FmtF2(data[3]))
         @@ (Lit.battery :> FmtF2(data[7]))
         @@ (Lit.dew_point :> FmtF2(d.val))
         @@ (Lit.humidity :> FmtF2(data[4]))
         @@ (Lit.pressure :> FmtF2(data[2]))
         @@ (Lit.strike_count :> FmtD(Round(data[5])))
         @@ (Lit.strike_distance :> FmtD(Round(data[6])))]]

\* parseSkyObservation (obs_sky).  math.IsNaN(data[11]) is never true: a JSON
\* number is not NaN and a JSON null decodes to 0, so daily_rain is always set
parseSkyObservation(c, report, mm, d) ==
  IF Len(report.Obs0) < 14
  THEN [err |-> InsufficientData(<<14, Len(report.Obs0)>>), m |-> mm]
  ELSE
    LET data == report.Obs0 IN
    [err |-> NoError,
     m |-> [mm EXCEPT
       !.Timestamp = ToInt64(data[1]),
       !.Fields =
            (Lit.battery :> FmtF2(data[9]))
         @@ (Lit.illuminance :> FmtD(Round(data[2])))
         @@ (Lit.precipitation :> FmtF2(data[4]))
         @@ (Lit.precipitation_type :> FmtD(Round(data[13])))
         @@ (Lit.solar_radiation :> FmtD(Round(data[11])))
         @@ (Lit.uv :> FmtD(Round(data[3])))
         @@ (Lit.wind_avg :> FmtF2(data[6]))
         @@ (Lit.wind_direction :> FmtD(Round(data[8])))
         @@ (Lit.wind_gust :> FmtF2(data[7]))
         @@ (Lit.wind_lull :> FmtF2(data[5]))
         @@ (Lit.daily_rain :> FmtF2(data[12]))]]

\* parseDeviceStatus
parseDeviceStatus(c, report, mm, d) ==
  [err |-> NoError,
   m |-> [mm EXCEPT
     !.Timestamp = report.Timestamp,
     !.Fields =
          (Lit.device_uptime :> FmtD(report.Uptime))
       @@ (Lit.device_voltage :> FmtF2(report.Voltage))
       @@ (Lit.device_rssi :> FmtF2(report.RSSI))
       @@ (Lit.device_hub_rssi :> FmtF2(report.HubRSSI))
       @@ (Lit.sensor_status :> FmtD(report.SensorStatus))
       @@ (Lit.firmware_revision :> FmtD(report.FirmwareRevision))]]

\* parseHubStatus as it would be with reset_flags set without the test for
\* the empty string
parseHubStatus_AlwaysFlags(c, report, mm, d) ==
  [err |-> NoError,
   m |-> [mm EXCEPT
     !.Timestamp = report.Timestamp,
     !.Fields =
          (Lit.hub_uptime :> FmtD(report.Uptime))
       @@ (Lit.hub_rssi :> FmtF2(report.RSSI))
       @@ (Lit.firmware_revision :> FmtD(report.FirmwareRevision))
       @@ (Lit.sequence :> FmtD(report.Seq))
       @@ (Lit.reset_flags :> report.ResetFlags)]]

\* parseHubStatus
parseHubStatus(c, report, mm, d) ==
  [err |-> NoError,
   m |-> [mm EXCEPT
     !.Timestamp = report.Timestamp,
     !.Fields =
          (Lit.hub_uptime :> FmtD(report.Uptime))
       @@ (Lit.hub_rssi :> FmtF2(report.RSSI))
       @@ (Lit.firmware_revision :> FmtD(report.FirmwareRevision))
       @@ (Lit.sequence :> FmtD(report.Seq))
       @@ (IF report.ResetFlags # <<>>
           THEN (Lit.reset_flags :> report.ResetFlags) ELSE <<>>)]]

-----------------------------------------------------------------------------
(* Parse.  Each case of the switch gives the pair (m, err) that Parse      *)
(* returns: (nil, wrapped error) when the extractor fails, else the Data   *)
(* with its tags set and the nil error of the extractor.                   *)

Return(mm, e) == [m |-> mm, err |-> e]

\* case "obs_st" as it would be with a bare return on the error path, which
\* hands back the named result m along with the error
caseObsSt_BareReturn(c, report, mm, d) ==
  LET r == parseObservation(c, report, [mm EXCEPT !.Name = Lit.weather], d) IN
  IF ~r.err.nil THEN Return(r.m, Wrap("parsing observation", r.err))
  ELSE Return([r.m EXCEPT !.Tags = Put(@, Lit.station, report.StationSerial)],
              r.err)

\* case "obs_st" as it would be with the station tag taken from hub_sn
caseObsSt_HubTag(c, report, mm, d) ==
  LET r == parseObservation(c, report, [mm EXCEPT !.Name = Lit.weather], d) IN
  IF ~r.err.nil THEN Return(NilData, Wrap("parsing observation", r.err))
  ELSE Return([r.m EXCEPT !.Tags = Put(@, Lit.station, report.HubSerial)],
              r.err)

\* case "obs_st"
caseObsSt(c, report, mm, d) ==
  LET r == parseObservation(c, report, [mm EXCEPT !.Name = Lit.weather], d) IN
  IF ~r.err.nil THEN Return(NilData, Wrap("parsing observation", r.err))
  ELSE Return([r.m EXCEPT !.Tags = Put(@, Lit.station, report.StationSerial)],
              r.err)

\* case "rapid_wind" as it would be with the override assigned without the
\* test for the empty string
caseRapidWind_AlwaysOverride(c, report, mm, d) ==
  IF ~c.Rapid_Wind THEN Return(NilData, NoError)
  ELSE
    LET r == parseRapidWind(c, report, [mm EXCEPT !.Name = Lit.weather], d) IN
    IF ~r.err.nil THEN Return(NilData, Wrap("parsing rapid wind", r.err))
    ELSE Return([r.m EXCEPT
                   !.Tags = Put(@, Lit.station, report.StationSerial),
                   !.Bucket = c.Influx_Bucket_Rapid_Wind],
                r.err)

\* case "rapid_wind"
caseRapidWind(c, report, mm, d) ==
  IF ~c.Rapid_Wind THEN Return(NilData, NoError)
  ELSE
    LET r == parseRapidWind(c, report, [mm EXCEPT !.Name = Lit.weather], d) IN
    IF ~r.err.nil THEN Return(NilData, Wrap("parsing rapid wind", r.err))
    ELSE Return([r.m EXCEPT
                   !.Tags = Put(@, Lit.station, report.StationSerial),
                   !.Bucket = IF c.Influx_Bucket_Rapid_Wind # <<>>
                              THEN c.Influx_Bucket_Rapid_Wind ELSE @],
                r.err)

\* case "evt_precip"
caseEvtPrecip(c, report, mm, d) ==
  LET r == parseRainStartEvent(c, report,
                               [mm EXCEPT !.Name = Lit.weather_events], d) IN
  IF ~r.err.nil THEN Return(NilData, Wrap("parsing rain start event", r.err))
  ELSE Return([r.m EXCEPT
                 !.Tags = Put(Put(@, Lit.station, report.StationSerial),
                              Lit.event_type, Lit.rain_start)],
              r.err)

\* case "evt_strike" as it would be with the measurement name of the
\* observations
caseEvtStrike_Weather(c, report, mm, d) ==
  LET r == parseLightningStrike(c, report, [mm EXCEPT !.Name = Lit.weather], d) IN
  IF ~r.err.nil THEN Return(NilData, Wrap("parsing lightning strike", r.err))
  ELSE Return([r.m EXCEPT
                 !.Tags = Put(Put(@, Lit.station, report.StationSerial),
                              Lit.event_type, Lit.lightning_strike)],
              r.err)

\* case "evt_strike"
caseEvtStrike(c, report, mm, d) ==
  LET r == parseLightningStrike(c, report,
                                [mm EXCEPT !.Name = Lit.weather_events], d) IN
  IF ~r.err.nil THEN Return(NilData, Wrap("parsing lightning strike", r.err))
  ELSE Return([r.m EXCEPT
                 !.Tags = Put(Put(@, Lit.station, report.StationSerial),
                              Lit.event_type, Lit.lightning_strike)],
              r.err)

\* case "obs_air"
caseObsAir(c, report, mm, d) ==
  LET r == parseAirObservation(c, report, [mm EXCEPT !.Name = Lit.weather], d) IN
  IF ~r.err.nil THEN Return(NilData, Wrap("parsing AIR observation", r.err))
  ELSE Return([r.m EXCEPT
                 !.Tags = Put(Put(@, Lit.station, report.StationSerial),
                              Lit.sensor_type, Lit.air)],
              r.err)

\* case "obs_sky"
caseObsSky(c, report, mm, d) ==
  LET r == parseSkyObservation(c, report, [mm EXCEPT !.Name = Lit.weather], d) IN
  IF ~r.err.nil THEN Return(NilData, Wrap("parsing Sky observation", r.err))
  ELSE Return([r.m EXCEPT
                 !.Tags = Put(Put(@, Lit.station, report.StationSerial),
                              Lit.sensor_type, Lit.sky)],
              r.err)

\* case "device_status" as it would be with the two serials exchanged
caseDeviceStatus_Swapped(c, report, mm, d) ==
  LET r == parseDeviceStatus(c, report,
                             [mm EXCEPT !.Name = Lit.device_status], d) IN
  IF ~r.err.nil THEN Return(NilData, Wrap("parsing device status", r.err))
  ELSE Return([r.m EXCEPT
                 !.Tags = Put(Put(@, Lit.device, report.HubSerial),
                              Lit.hub, report.StationSerial)],
              r.err)

\* case "device_status"
caseDeviceStatus(c, report, mm, d) ==
  LET r == parseDeviceStatus(c, report,
                             [mm EXCEPT !.Name = Lit.device_status], d) IN
  IF ~r.err.nil THEN Return(NilData, Wrap("parsing device status", r.err))
  ELSE Return([r.m EXCEPT
                 !.Tags = Put(Put(@, Lit.device, report.StationSerial),
                              Lit.hub, report.HubSerial)],
              r.err)

\* case "hub_status"
caseHubStatus(c, report, mm, d) ==
  LET r == parseHubStatus(c, report, [mm EXCEPT !.Name = Lit.hub_status], d) IN
  IF ~r.err.nil THEN Return(NilData, Wrap("parsing hub status", r.err))
  ELSE Return([r.m EXCEPT !.Tags = Put(@, Lit.hub, report.StationSerial)],
              r.err)

\* Parse after the decoding: m := influx.New(), the bucket, and the switch
Dispatch(c, report, d) ==
    LET mm == [New EXCEPT !.Bucket = c.Influx_Bucket]
        t == report.ReportType
    IN  CASE t = Lit.obs_st -> caseObsSt(c, report, mm, d)
          [] t = Lit.rapid_wind -> caseRapidWind(c, report, mm, d)
          [] t = Lit.evt_precip -> caseEvtPrecip(c, report, mm, d)
          [] t = Lit.evt_strike -> caseEvtStrike(c, report, mm, d)
          [] t = Lit.obs_air -> caseObsAir(c, report, mm, d)
          [] t = Lit.obs_sky -> caseObsSky(c, report, mm, d)
          [] t = Lit.device_status -> caseDeviceStatus(c, report, mm, d)
          [] t = Lit.hub_status -> caseHubStatus(c, report, mm, d)
          [] OTHER -> Return(NilData, NoError)

\* Parse(cfg, addr, b, n): doc is the content of b[:n]
Parse(c, doc, d) ==
  IF DecodeFails(doc) THEN Return(NilData, UnmarshalError)
  ELSE Dispatch(c, ReportOf(doc.top), d)

-----------------------------------------------------------------------------
(* Marshal.  The two range loops visit the maps in an order the runtime    *)
(* picks: tagOrder and fieldOrder are those orders (sequences of keys).    *)

\* sort.Strings: ascending in Go's string order (insertion into a sorted list)
RECURSIVE InsertSorted(_, _)
InsertSorted(str, sorted) ==
  IF sorted = <<>> THEN <<str>>
  ELSE IF StrLess(str, Head(sorted)) THEN <<str>> \o sorted
  ELSE <<Head(sorted)>> \o InsertSorted(str, Tail(sorted))

RECURSIVE SortStrings(_)
SortStrings(strs) ==
  IF strs = <<>> THEN <<>>
  ELSE InsertSorted(Head(strs), SortStrings(Tail(strs)))

\* a string with a backslash put before each comma, space and equals sign
RECURSIVE Escape(_)
Escape(str) ==
  IF str = <<>> THEN <<>>
  ELSE (IF Head(str) \in {44, 32, 61} THEN <<92, Head(str)>>
        ELSE <<Head(str)>>) \o Escape(Tail(str))

\* the slice as it would be built with keys and values escaped
Pairs_Escaped(mp, order) ==
  [i \in 1..Len(order) |-> Escape(order[i]) \o Equals \o Escape(mp[order[i]])]

\* the slice built by one range loop: key + "=" + value, in iteration order
Pairs(mp, order) == [i \in 1..Len(order) |-> order[i] \o Equals \o mp[order[i]]]

\* Marshal as it would be with the tags slice joined into both segments
Marshal_TagsTwice(mm, tagOrder, fieldOrder) ==
  LET tags == SortStrings(Pairs(mm.Tags, tagOrder))
  IN  mm.Name \o Comma \o Join(tags, Comma) \o Space \o Join(tags, Comma)
        \o Space \o FmtD(mm.Timestamp) \o Newline

\* Marshal as it would be without the two calls of sort.Strings
Marshal_Unsorted(mm, tagOrder, fieldOrder) ==
  LET tags == Pairs(mm.Tags, tagOrder)
      fields == Pairs(mm.Fields, fieldOrder)
  IN  mm.Name \o Comma \o Join(tags, Comma) \o Space \o Join(fields, Comma)
        \o Space \o FmtD(mm.Timestamp) \o Newline

\* (m *Data).Marshal
Marshal(mm, tagOrder, fieldOrder) ==
  LET tags == SortStrings(Pairs(mm.Tags, tagOrder))
      fields == SortStrings(Pairs(mm.Fields, fieldOrder))
  IN  mm.Name \o Comma \o Join(tags, Comma) \o Space \o Join(fields, Comma)
        \o Space \o FmtD(mm.Timestamp) \o Newline

\* the orders in which a range loop can visit a map
Orders(mp) ==
  {o \in [1..Cardinality(DOMAIN mp) -> DOMAIN mp] :
     \A i, j \in DOMAIN o : i # j => o[i] # o[j]}

-----------------------------------------------------------------------------
(* The inputs: configurations, packets, dew point results, Records *)

\* "bkt", "rw", "ST-1", "HB-2", "BOR", "x"
BucketName == <<98, 107, 116>>
RapidBucketName == <<114, 119>>
StationName == <<83, 84, 45, 49>>
HubName == <<72, 66, 45, 50>>
ResetFlagsText == <<66, 79, 82>>
OtherText == <<120>>

\* the part of config.Config that Parse reads
Configs ==
  [Rapid_Wind : BOOLEAN, Debug : BOOLEAN,
   Influx_Bucket : {BucketName},
   Influx_Bucket_Rapid_Wind : {<<>>, RapidBucketName}]

\* what dewpoint.Calculate can return: a value (in quarters) and an error or none
DewPointOutcomes ==
  {[val |-> 42, failed |-> FALSE], [val |-> 0, failed |-> TRUE],
   [val |-> -30, failed |-> TRUE]}

\* element i of a generated array: i + 1/2, -(i + 1/4), or null at index 11
\* (counted from 0) of an array of whole numbers
Element(pat, i) ==
  CASE pat = "half" -> JNum(4 * i + 2)
    [] pat = "negative" -> JNum(-(4 * i + 1))
    [] pat = "null11" -> IF i = 12 THEN JNull ELSE JNum(4 * i)

ArrayOf(pat, len) == JArr([i \in 1..len |-> Element(pat, i)])

\* the values of "type": the eight report types, an unknown one, a number
TypeValues ==
  {JStr(t) : t \in {Lit.obs_st, Lit.rapid_wind, Lit.evt_precip, Lit.evt_strike,
                    Lit.obs_air, Lit.obs_sky, Lit.device_status, Lit.hub_status,
                    OtherText}}
    \cup {JNum(4)}

\* the members of a packet besides "type" and "serial_number"; one "ob" is
\* [1640, 5.5, 270], the triple of TestParseRapidWindSuccess with a timestamp
\* whose count in quarters stays in range
Bodies ==
       {"obs" :> JArr(<<ArrayOf(pat, len)>>) :
          pat \in {"half", "negative", "null11"}, len \in 0..MaxObsLen}
  \cup {"obs" :> JArr(<<ArrayOf("half", len), ArrayOf("negative", 3)>>) :
          len \in {3, 18}}
  \cup {"obs" :> v : v \in {JArr(<<>>), JStr(OtherText), JArr(<<JNum(4)>>)}}
  \cup {"ob" :> ArrayOf(pat, len) :
          pat \in {"half", "negative"}, len \in 0..MaxEvtLen}
  \cup {"ob" :> JStr(OtherText)}
  \cup {"ob" :> JArr(<<JNum(4 * 1640), JNum(22), JNum(4 * 270)>>)}
  \cup {"evt" :> ArrayOf(pat, len) :
          pat \in {"half", "negative"}, len \in 0..MaxEvtLen}
  \cup {<<>>}
  \cup {("timestamp" :> JNum(4 * 7)) @@ ("uptime" :> JNum(4 * 9))
          @@ ("voltage" :> JNum(10)) @@ ("rssi" :> JNum(-4 * 50))
          @@ ("hub_rssi" :> JNum(-4 * 60 - 2)) @@ ("sensor_status" :> JNum(0))
          @@ ("firmware_revision" :> JNum(4 * 35)) @@ ("seq" :> JNum(4 * 3))
          @@ ("hub_sn" :> JStr(HubName)) @@ ("reset_flags" :> rf) :
          rf \in {JNull, JStr(<<>>), JStr(ResetFlagsText)}}
  \cup {"uptime" :> v : v \in {JNum(6), JStr(OtherText)}}

\* the JSON objects of the generated packets
Objects ==
  {JObj(body @@ ty @@ sn) :
     body \in Bodies,
     ty \in {<<>>} \cup {"type" :> v : v \in TypeValues},
     sn \in {<<>>, "serial_number" :> JStr(StationName)}}

\* the packets: an object, alone or followed by other bytes; null, a number,
\* an array; bytes that do not start with a JSON value
Payloads ==
       {[syntax |-> TRUE, trailing |-> tr, top |-> v] :
          v \in Objects, tr \in BOOLEAN}
  \cup {[syntax |-> TRUE, trailing |-> FALSE, top |-> v] :
          v \in {JNull, JNum(4), JArr(<<>>)}}
  \cup {[syntax |-> FALSE, trailing |-> FALSE, top |-> JNull]}

NoPayload == [syntax |-> FALSE, trailing |-> FALSE, top |-> JNull]

-----------------------------------------------------------------------------
(* One call of Parse on one packet *)

Init ==
  /\ cfg \in Configs
  /\ b = NoPayload
  /\ dp = [val |-> 0, failed |-> FALSE]
  /\ m = NilData
  /\ err = NoError
  /\ line = <<>>
  /\ pc = "start"
  /\ calls = <<>>
  /\ logged = {}
  /\ p = 0
  /\ signalled = ""
  /\ ctx = "background"
  /\ sigCh = 0
  /\ viper = <<>>

\* a datagram arrives: b[:n] holds its payload
ReadFromUDP ==
  /\ pc = "start"
  /\ \E doc \in Payloads : b' = doc
  /\ pc' = "parse"
  /\ UNCHANGED <<cfg, dp, m, err, line, calls, viper, mainVars, p>>

\* a Parse that decodes in place and leaves the buffer consumed
ParseStep_InPlace ==
  /\ pc = "parse"
  /\ \E d \in DewPointOutcomes :
       LET r == Parse(cfg, b, d) IN
       /\ dp' = d
       /\ m' = r.m
       /\ err' = r.err
  /\ b' = NoPayload
  /\ pc' = "returned"
  /\ UNCHANGED <<cfg, line, calls, viper, mainVars, p>>

\* m, err = Parse(cfg, addr, b, n)
ParseStep ==
  /\ pc = "parse"
  /\ \E d \in DewPointOutcomes :
       LET r == Parse(cfg, b, d) IN
       /\ dp' = d
       /\ m' = r.m
       /\ err' = r.err
  /\ pc' = "returned"
  /\ UNCHANGED <<cfg, b, line, calls, viper, mainVars, p>>

Next == ReadFromUDP \/ ParseStep

Spec == Init /\ [][Next]_vars

-----------------------------------------------------------------------------
(* One call of Parse whose buffer goes back to the pool and is written   *)
(* again while the caller still holds what Parse returned                 *)

\* what the next read leaves in the buffer: garbage, "null", "4"
NextDatagrams ==
  {NoPayload,
   [syntax |-> TRUE, trailing |-> FALSE, top |-> JNull],
   [syntax |-> TRUE, trailing |-> FALSE, top |-> JNum(4)]}

\* bufferPool.Put(buf); buf = bufferPool.Get(); conn.ReadFromUDP(buf).
\* The decoder copied every string it put in the Report, and the error text
\* holds string(b[:n]), a copy: m and err keep no reference to b
Overwrite ==
  /\ pc = "returned"
  /\ \E doc \in NextDatagrams \ {b} : b' = doc
  /\ pc' = "overwritten"
  /\ UNCHANGED <<cfg, dp, m, err, line, calls, viper, mainVars, p>>

NextBuffer == ReadFromUDP \/ ParseStep \/ Overwrite

SpecBuffer == Init /\ [][NextBuffer]_vars

-----------------------------------------------------------------------------
(* One call of Marshal on a Record built as the tests build it *)

\* "a", "a1", "ab", "b": keys of which one is a prefix of another
RecordKeys == {<<97>>, <<97, 49>>, <<97, 98>>, <<98>>}
\* "1", "2,3": tag values;  "1", "c d=e": field values
TagValues == {<<49>>, <<50, 44, 51>>}
FieldValues == {<<49>>, <<99, 32, 100, 61, 101>>}
Timestamps == {0, -5, 1640995200}

\* the maps with at most MaxPairs keys
MapsOf(values) ==
  UNION {[keys -> values] :
           keys \in {ks \in SUBSET RecordKeys : Cardinality(ks) <= MaxPairs}}

InitMarshal ==
  /\ cfg = [Rapid_Wind |-> FALSE, Debug |-> FALSE, Influx_Bucket |-> BucketName,
            Influx_Bucket_Rapid_Wind |-> <<>>]
  /\ b = NoPayload
  /\ dp = [val |-> 0, failed |-> FALSE]
  /\ m = NilData
  /\ err = NoError
  /\ line = <<>>
  /\ pc = "start"
  /\ calls = <<>>
  /\ logged = {}
  /\ p = 0
  /\ signalled = ""
  /\ ctx = "background"
  /\ sigCh = 0
  /\ viper = <<>>

\* m := New(); m.Name = ...; m.Tags[k] = v; m.Fields[k] = v; m.Timestamp = ...
BuildRecord ==
  /\ pc = "start"
  /\ \E tags \in MapsOf(TagValues), fields \in MapsOf(FieldValues),
        ts \in Timestamps :
       m' = [New EXCEPT !.Name = Lit.weather, !.Tags = tags, !.Fields = fields,
                        !.Timestamp = ts]
  /\ pc' = "marshal"
  /\ UNCHANGED <<cfg, b, dp, err, line, calls, viper, mainVars, p>>

\* line := m.Marshal()
MarshalStep ==
  /\ pc = "marshal"
  /\ \E tagOrder \in Orders(m.Tags), fieldOrder \in Orders(m.Fields) :
       line' = Marshal(m, tagOrder, fieldOrder)
  /\ pc' = "marshalled"
  /\ UNCHANGED <<cfg, b, dp, m, err, calls, viper, mainVars, p>>

NextMarshal == BuildRecord \/ MarshalStep

SpecMarshal == InitMarshal /\ [][NextMarshal]_vars

-----------------------------------------------------------------------------
(* Two goroutines call Marshal on one Record, as the parallel benchmark    *)
(* does.  calls[i] holds where goroutine i stands and the line it got.     *)

Marshallers == {1, 2}

InitShared ==
  /\ cfg = [Rapid_Wind |-> FALSE, Debug |-> FALSE, Influx_Bucket |-> BucketName,
            Influx_Bucket_Rapid_Wind |-> <<>>]
  /\ b = NoPayload
  /\ dp = [val |-> 0, failed |-> FALSE]
  /\ m = NilData
  /\ err = NoError
  /\ line = <<>>
  /\ pc = "start"
  /\ calls = [i \in Marshallers |-> [pc |-> "start", line |-> <<>>]]
  /\ viper = <<>>
  /\ sigCh = 0
  /\ ctx = "background"
  /\ signalled = ""
  /\ logged = {}
  /\ p = 0

\* _ = data.Marshal() in goroutine i: the range loops take the maps in some
\* order; the Record is only read
MarshalCall(i) ==
  /\ pc = "marshal"
  /\ calls[i].pc = "start"
  /\ \E tagOrder \in Orders(m.Tags), fieldOrder \in Orders(m.Fields) :
       calls' = [calls EXCEPT ![i] =
                   [pc |-> "returned",
                    line |-> Marshal(m, tagOrder, fieldOrder)]]
  /\ UNCHANGED <<cfg, b, dp, m, err, line, pc, viper, mainVars, p>>

NextShared == BuildRecord \/ \E i \in Marshallers : MarshalCall(i)

SpecShared == InitShared /\ [][NextShared]_vars

-----------------------------------------------------------------------------
(* NumCalls calls of Parse at once, each in its own goroutine, on one cfg. *)
(* calls[i] holds the arguments, the locals and the results of call i.     *)

\* where a call would keep report, were it one variable of the package
ReportSlot_Shared(i) == 1

\* where call i keeps `var report Report`: a local of its own
ReportSlot(i) == i

\* a packet with a type and a serial number
Packet(t, sn, body) ==
  [syntax |-> TRUE, trailing |-> FALSE,
   top |-> JObj(body @@ ("type" :> JStr(t)) @@ ("serial_number" :> JStr(sn)))]

\* the packets of the concurrent calls: three that give Records which differ
\* in name, bucket, tags, fields and timestamp, and one that does not decode
ConcurrentPayloads ==
  {Packet(Lit.obs_st, StationName, "obs" :> JArr(<<ArrayOf("half", 18)>>)),
   Packet(Lit.rapid_wind, OtherText, "ob" :> ArrayOf("negative", 3)),
   Packet(Lit.device_status, HubName,
          ("timestamp" :> JNum(4 * 7)) @@ ("uptime" :> JNum(4 * 9))
            @@ ("hub_sn" :> JStr(StationName))),
   NoPayload}

\* a call not yet made
NoCall ==
  [pc |-> "start", b |-> NoPayload, d |-> [val |-> 0, failed |-> FALSE],
   report |-> ReportOf(JNull), m |-> NilData, err |-> NoError]

InitConcurrent ==
  /\ cfg \in Configs
  /\ b = NoPayload
  /\ dp = [val |-> 0, failed |-> FALSE]
  /\ m = NilData
  /\ err = NoError
  /\ line = <<>>
  /\ pc = "start"
  /\ calls = [i \in 1..NumCalls |-> NoCall]
  /\ logged = {}
  /\ p = 0
  /\ signalled = ""
  /\ ctx = "background"
  /\ sigCh = 0
  /\ viper = <<>>

\* call i enters Parse with its payload; report is declared, all zero
Call(i) ==
  /\ calls[i].pc = "start"
  /\ \E doc \in ConcurrentPayloads, d \in DewPointOutcomes :
       calls' = [[calls EXCEPT ![ReportSlot(i)].report = ReportOf(JNull)]
                   EXCEPT ![i].pc = "decode", ![i].b = doc, ![i].d = d]
  /\ UNCHANGED <<cfg, b, dp, m, err, line, pc, viper, mainVars, p>>

\* decoder.Decode(&report), and the return of the decoding error
Decode(i) ==
  /\ calls[i].pc = "decode"
  /\ IF DecodeFails(calls[i].b)
     THEN calls' = [calls EXCEPT ![i].pc = "returned",
                                 ![i].err = UnmarshalError]
     ELSE calls' = [[calls EXCEPT ![ReportSlot(i)].report =
                                    ReportOf(calls[i].b.top)]
                      EXCEPT ![i].pc = "switch"]
  /\ UNCHANGED <<cfg, b, dp, m, err, line, pc, viper, mainVars, p>>

\* m := influx.New() and the switch on report.ReportType, to the return
Switch(i) ==
  /\ calls[i].pc = "switch"
  /\ LET r == Dispatch(cfg, calls[ReportSlot(i)].report, calls[i].d) IN
       calls' = [calls EXCEPT ![i].pc = "returned", ![i].m = r.m,
                              ![i].err = r.err]
  /\ UNCHANGED <<cfg, b, dp, m, err, line, pc, viper, mainVars, p>>

NextConcurrent ==
  \E i \in 1..NumCalls : Call(i) \/ Decode(i) \/ Switch(i)

SpecConcurrent == InitConcurrent /\ [][NextConcurrent]_vars

-----------------------------------------------------------------------------
(* Config.Validate.  Here cfg is a Config with the fields Validate reads,  *)
(* and err the error it returns: nil, or the list of the messages joined.  *)

\* strings.Contains(s, string(c)) for one byte c
ContainsByte(s, c) == \E i \in DOMAIN s : s[i] = c

\* strings.HasPrefix
HasPrefix(s, prefix) ==
  Len(s) >= Len(prefix) /\ SubSeq(s, 1, Len(prefix)) = prefix

\* before, _, _ := strings.Cut(s, string(c))
CutBefore(s, c) ==
  IF ContainsByte(s, c)
  THEN SubSeq(s, 1, (CHOOSE i \in DOMAIN s :
                       s[i] = c /\ \A j \in 1..(i - 1) : s[j] # c) - 1)
  ELSE s

\* net/url getScheme, reading rawURL from byte i: letters go on; a digit,
\* '+', '-' or '.' goes on except as first byte; ':' ends the scheme and
\* fails as first byte ("missing protocol scheme"); any other byte means
\* there is no scheme
RECURSIVE getScheme(_, _)
getScheme(rawURL, i) ==
  IF i > Len(rawURL)
  THEN [scheme |-> <<>>, path |-> rawURL, failed |-> FALSE]
  ELSE LET c == rawURL[i] IN
    IF c \in (65..90) \cup (97..122) THEN getScheme(rawURL, i + 1)
    ELSE IF c \in (48..57) \cup {43, 45, 46}
    THEN IF i = 1 THEN [scheme |-> <<>>, path |-> rawURL, failed |-> FALSE]
         ELSE getScheme(rawURL, i + 1)
    ELSE IF c = 58
    THEN IF i = 1 THEN [scheme |-> <<>>, path |-> <<>>, failed |-> TRUE]
         ELSE [scheme |-> SubSeq(rawURL, 1, i - 1),
               path |-> SubSeq(rawURL, i + 1, Len(rawURL)), failed |-> FALSE]
    ELSE [scheme |-> <<>>, path |-> rawURL, failed |-> FALSE]

\* net/url parseHost for a host without brackets: what follows the last ':'
\* must be digits ("invalid port"), and every byte must be one that a host
\* name may hold unescaped ("invalid character in host name")
parseHostFails(host) ==
  \/ /\ ContainsByte(host, 58)
     /\ LET i == CHOOSE k \in DOMAIN host :
                   host[k] = 58 /\ \A j \in (k + 1)..Len(host) : host[j] # 58
        IN  \E j \in (i + 1)..Len(host) : host[j] \notin 48..57
  \/ \E i \in DOMAIN host :
       host[i] \notin (48..57) \cup (65..90) \cup (97..122) \cup (128..255)
                        \cup {45, 95, 46, 126}
                        \cup {33, 36, 38, 39, 40, 41, 42, 43, 44, 59, 61, 58,
                              91, 93, 60, 62, 34}

\* url.Parse(rawURL) returns an error.  The rules for '#', '?', '%', '@'
\* and '[' are left out: no URL of URLTexts holds one of these bytes.
urlParseFails(rawURL) ==
  \/ \E i \in DOMAIN rawURL : rawURL[i] < 32 \/ rawURL[i] = 127
  \/ /\ rawURL # <<42>>
     /\ LET s == getScheme(rawURL, 1)
            rest == s.path
        IN  \/ s.failed
            \/ /\ ~HasPrefix(rest, <<47>>)
               /\ s.scheme = <<>>
               /\ ContainsByte(CutBefore(rest, 47), 58)
            \/ /\ HasPrefix(rest, <<47, 47>>)
               /\ s.scheme # <<>> \/ ~HasPrefix(rest, <<47, 47, 47>>)
               /\ parseHostFails(CutBefore(SubSeq(rest, 3, Len(rest)), 47))

\* the error of Validate: the messages appended to validationErrors
ValidationError(validationErrors) ==
  [nil |-> FALSE, errors |-> validationErrors]

NoValidationError == [nil |-> TRUE, errors |-> <<>>]

\* Validate were the buffer test `c.Buffer < 0`
Validate_ZeroBuffer(c) ==
  LET validationErrors ==
           (IF c.Influx_URL = <<>> THEN <<"INFLUX_URL is required">> ELSE <<>>)
        \o (IF c.Influx_Token = <<>> THEN <<"INFLUX_TOKEN is required">>
            ELSE <<>>)
        \o (IF c.Influx_Bucket = <<>> THEN <<"INFLUX_BUCKET is required">>
            ELSE <<>>)
        \o (IF c.Influx_URL # <<>> /\ urlParseFails(c.Influx_URL)
            THEN <<"INFLUX_URL is not a valid URL">> ELSE <<>>)
        \o (IF c.Listen_Address # <<>> /\ ~ContainsByte(c.Listen_Address, 58)
            THEN <<"LISTEN_ADDRESS must include port">> ELSE <<>>)
        \o (IF c.Buffer < 0 THEN <<"Buffer size must be greater than 0">>
            ELSE <<>>)
  IN  [c |-> c,
       err |-> IF Len(validationErrors) > 0
               THEN ValidationError(validationErrors)
               ELSE NoValidationError]

\* (c *Config).Validate: the error returned, and c after the call
Validate(c) ==
  LET validationErrors ==
           (IF c.Influx_URL = <<>> THEN <<"INFLUX_URL is required">> ELSE <<>>)
        \o (IF c.Influx_Token = <<>> THEN <<"INFLUX_TOKEN is required">>
            ELSE <<>>)
        \o (IF c.Influx_Bucket = <<>> THEN <<"INFLUX_BUCKET is required">>
            ELSE <<>>)
        \o (IF c.Influx_URL # <<>> /\ urlParseFails(c.Influx_URL)
            THEN <<"INFLUX_URL is not a valid URL">> ELSE <<>>)
        \o (IF c.Listen_Address # <<>> /\ ~ContainsByte(c.Listen_Address, 58)
            THEN <<"LISTEN_ADDRESS must include port">> ELSE <<>>)
        \o (IF c.Buffer <= 0 THEN <<"Buffer size must be greater than 0">>
            ELSE <<>>)
  IN  [c |-> c,
       err |-> IF Len(validationErrors) > 0
               THEN ValidationError(validationErrors)
               ELSE NoValidationError]

\* "", "http://h:8086/w", "h", "://x" (the test's invalid URL), "1a:b",
\* "http://h:p", and "h" followed by the control byte 0x01
URLTexts ==
  {<<>>,
   <<104, 116, 116, 112, 58, 47, 47, 104, 58, 56, 48, 56, 54, 47, 119>>,
   <<104>>,
   <<58, 47, 47, 120>>,
   <<49, 97, 58, 98>>,
   <<104, 116, 116, 112, 58, 47, 47, 104, 58, 112>>,
   <<104, 1>>}

\* "", ":50222", "x"
ListenAddresses == {<<>>, <<58, 53, 48, 50, 50, 50>>, OtherText}

\* the Configs handed to Validate
ValidateConfigs ==
  [Influx_URL : URLTexts,
   Influx_Token : {<<>>, OtherText},
   Influx_Bucket : {<<>>, BucketName},
   Listen_Address : ListenAddresses,
   Buffer : {-1, 0, 1024}]

InitConfig ==
  /\ cfg \in ValidateConfigs
  /\ b = NoPayload
  /\ dp = [val |-> 0, failed |-> FALSE]
  /\ m = NilData
  /\ err = NoValidationError
  /\ line = <<>>
  /\ pc = "start"
  /\ calls = <<>>
  /\ logged = {}
  /\ p = 0
  /\ signalled = ""
  /\ ctx = "background"
  /\ sigCh = 0
  /\ viper = <<>>

\* err := cfg.Validate()
ValidateStep ==
  /\ pc = "start"
  /\ LET r == Validate(cfg) IN
       /\ cfg' = r.c
       /\ err' = r.err
  /\ pc' = "validated"
  /\ UNCHANGED <<b, dp, m, line, calls, viper, mainVars, p>>

NextConfig == ValidateStep

SpecConfig == InitConfig /\ [][NextConfig]_vars

-----------------------------------------------------------------------------
(* config.Load.  viper holds the command line (args), the environment      *)
(* (environ) and the configuration file (disk: whether it is YAML, and its *)
(* settings, none for a missing file) the program starts with,             *)
(* and what the viper package keeps: the values read from the file         *)
(* (config) and the values set by viper.Set (override).  A source is a     *)
(* function from the keys it sets to their values.                         *)

\* ":50222"
DefaultListenAddress == <<58, 53, 48, 50, 50, 50>>
\* "https://localhost:8086/api/v2/write"
DefaultInfluxURL ==
  <<104, 116, 116, 112, 115, 58, 47, 47, 108, 111, 99, 97, 108,
    104, 111, 115, 116, 58, 56, 48, 56, 54,
    47, 97, 112, 105, 47, 118, 50, 47, 119, 114, 105, 116, 101>>
DefaultBuffer == 10240

\* "true", "false": a boolean setting as its source writes it
TrueText == <<116, 114, 117, 101>>
FalseText == <<102, 97, 108, 115, 101>>

\* strconv.ParseBool, by which viper.GetBool reads a text: "1", "t", "T",
\* "TRUE", "true", "True"
ParseBool(str) ==
  str \in {<<49>>, <<116>>, <<84>>, <<84, 82, 85, 69>>, TrueText,
           <<84, 114, 117, 101>>}

\* viper.SetDefault
Defaults ==
  ("listen_address" :> DefaultListenAddress)
    @@ ("influx_url" :> DefaultInfluxURL)
    @@ ("buffer" :> DefaultBuffer)

\* the default values of the flags
FlagDefaults ==
  [listen_address |-> <<>>, influx_url |-> <<>>, influx_token |-> <<>>,
   influx_bucket |-> <<>>, influx_bucket_rapid_wind |-> <<>>, buffer |-> 0,
   verbose |-> FalseText, debug |-> FalseText, noop |-> FalseText,
   rapid_wind |-> FalseText]

\* viper.Get: a value set by viper.Set, else a flag given on the command
\* line, else the environment, else the file read, else the default, else
\* the flag's default
Get(v, key) ==
  IF key \in DOMAIN v.override THEN v.override[key]
  ELSE IF key \in DOMAIN v.args THEN v.args[key]
  ELSE IF key \in DOMAIN v.environ THEN v.environ[key]
  ELSE IF key \in DOMAIN v.config THEN v.config[key]
  ELSE IF key \in DOMAIN Defaults THEN Defaults[key]
  ELSE FlagDefaults[key]

\* viper.GetBool
GetBool(v, key) == ParseBool(Get(v, key))

\* viper.Unmarshal(&config)
Unmarshal(v) ==
  [Config_Dir |-> <<>>,
   Listen_Address |-> Get(v, "listen_address"),
   Influx_URL |-> Get(v, "influx_url"),
   Influx_Token |-> Get(v, "influx_token"),
   Influx_Bucket |-> Get(v, "influx_bucket"),
   Influx_Bucket_Rapid_Wind |-> Get(v, "influx_bucket_rapid_wind"),
   Buffer |-> Get(v, "buffer"),
   Verbose |-> GetBool(v, "verbose"),
   Debug |-> GetBool(v, "debug"),
   Noop |-> GetBool(v, "noop"),
   Rapid_Wind |-> GetBool(v, "rapid_wind")]

\* what one source can set of debug, verbose and influx_bucket
Settings ==
  {debug @@ verbose @@ bucket :
     debug \in {<<>>} \cup {"debug" :> x : x \in {TrueText, FalseText}},
     verbose \in {<<>>} \cup {"verbose" :> x : x \in {TrueText, FalseText}},
     bucket \in {<<>>, "influx_bucket" :> BucketName}}

\* the state of a program that has not called Load
NoViper ==
  [args |-> <<>>, environ |-> <<>>,
   disk |-> [yaml |-> TRUE, settings |-> <<>>], config |-> <<>>,
   override |-> <<>>]

\* the Config before Load has built one
NoConfig == Unmarshal(NoViper)

\* the token comes with the environment; the file is not YAML, or holds
\* settings (none when it is absent or empty)
InitLoad ==
  /\ cfg = NoConfig
  /\ b = NoPayload
  /\ dp = [val |-> 0, failed |-> FALSE]
  /\ m = NilData
  /\ err = NoValidationError
  /\ line = <<>>
  /\ pc = "start"
  /\ calls = <<>>
  /\ logged = {}
  /\ p = 0
  /\ signalled = ""
  /\ ctx = "background"
  /\ sigCh = 0
  /\ \E flags \in Settings, env \in Settings,
        file \in {[yaml |-> FALSE, settings |-> <<>>]}
                 \cup {[yaml |-> TRUE, settings |-> s] : s \in Settings} :
       viper = [args |-> flags,
                environ |-> env @@ ("influx_token" :> OtherText),
                disk |-> file, config |-> <<>>, override |-> <<>>]

\* if viper.GetBool("debug") { viper.Set("verbose", true) }
SetVerbose ==
  /\ pc = "start"
  /\ viper' = IF GetBool(viper, "debug")
              THEN [viper EXCEPT !.override = ("verbose" :> TrueText) @@ @]
              ELSE viper
  /\ pc' = "read"
  /\ UNCHANGED <<cfg, b, dp, m, err, line, calls, mainVars, p>>

\* viper.ReadInConfig(): a missing file is passed over, any other error is
\* fatal
ReadInConfig ==
  /\ pc = "read"
  /\ IF ~viper.disk.yaml
     THEN pc' = "fatal" /\ UNCHANGED viper
     ELSE /\ pc' = "unmarshal"
          /\ viper' = [viper EXCEPT !.config = viper.disk.settings]
  /\ UNCHANGED <<cfg, b, dp, m, err, line, calls, mainVars, p>>

\* viper.Unmarshal(&config)
UnmarshalStep ==
  /\ pc = "unmarshal"
  /\ cfg' = Unmarshal(viper)
  /\ pc' = "validate"
  /\ UNCHANGED <<b, dp, m, err, line, calls, viper, mainVars, p>>

\* lo.Must0(config.Validate()); return config
MustValidate ==
  /\ pc = "validate"
  /\ LET r == Validate(cfg) IN
       /\ cfg' = r.c
       /\ err' = r.err
       /\ pc' = IF r.err.nil THEN "loaded" ELSE "panicked"
  /\ UNCHANGED <<b, dp, m, line, calls, viper, mainVars, p>>

NextLoad == SetVerbose \/ ReadInConfig \/ UnmarshalStep \/ MustValidate

SpecLoad == InitLoad /\ [][NextLoad]_vars

-----------------------------------------------------------------------------
(* main and graceful shutdown.  pc.main is where main stands, pc.handler   *)
(* where the goroutine that waits for a signal stands; sigCh counts the    *)
(* signals in the channel, signalled is pc.main as it was when a signal    *)
(* first arrived ("" before), err is what service.Start returned.          *)

\* make(chan os.Signal, 1)
SigChCap == 1

InitMain ==
  /\ cfg = NoConfig
  /\ b = NoPayload
  /\ dp = [val |-> 0, failed |-> FALSE]
  /\ m = NilData
  /\ err = "none"
  /\ line = <<>>
  /\ pc = [main |-> "start", handler |-> "none"]
  /\ calls = <<>>
  /\ viper = <<>>
  /\ sigCh = 0
  /\ ctx = "background"
  /\ signalled = ""
  /\ logged = {}
  /\ p = 0

\* the process has ended: by a panic or log.Fatalf in Load, or by a return
\* of main
Ended == pc.main \in {"panicked", "fatal", "exited"}

\* ctx, cancel := context.WithCancel(...); defer cancel();
\* sigCh := make(chan os.Signal, 1); signal.Notify(sigCh, SIGINT, SIGTERM)
Notify ==
  /\ pc.main = "start"
  /\ ctx' = "active"
  /\ pc' = [pc EXCEPT !.main = "load"]
  /\ UNCHANGED <<cfg, b, dp, m, err, line, calls, viper, sigCh, signalled,
                 logged, p>>

\* the delivery to a channel made without a buffer: the signal is dropped
\* unless the goroutine is waiting to receive
Deliver_Unbuffered ==
  /\ pc.main # "start" /\ ~Ended
  /\ sigCh' = IF pc.handler = "recv" /\ sigCh = 0 THEN sigCh + 1 ELSE sigCh
  /\ signalled' = IF signalled = "" THEN pc.main ELSE signalled
  /\ UNCHANGED <<cfg, b, dp, m, err, line, pc, calls, viper, ctx, logged, p>>

\* the system delivers SIGINT or SIGTERM to the process: the signal package
\* sends it to sigCh without blocking, and drops it when the channel is full
\* and no receiver waits
Deliver ==
  /\ pc.main # "start" /\ ~Ended
  /\ sigCh' = IF sigCh < SigChCap \/ (pc.handler = "recv" /\ sigCh = 0)
              THEN sigCh + 1 ELSE sigCh
  /\ signalled' = IF signalled = "" THEN pc.main ELSE signalled
  /\ UNCHANGED <<cfg, b, dp, m, err, line, pc, calls, viper, ctx, logged, p>>

\* the Configs Load can return, as far as main reads them
LoadedConfigs ==
  {[NoConfig EXCEPT !.Influx_Token = OtherText, !.Influx_Bucket = BucketName,
                    !.Influx_URL = DefaultInfluxURL,
                    !.Listen_Address = DefaultListenAddress,
                    !.Buffer = DefaultBuffer,
                    !.Debug = d, !.Verbose = v] :
     d \in BOOLEAN, v \in BOOLEAN}

\* cfg := config.Load(...): Load returns, or panics at lo.Must0 (the
\* deferred cancel then runs), or ends the process in log.Fatalf
LoadConfig ==
  /\ pc.main = "load"
  /\ \/ /\ pc' = [pc EXCEPT !.main = "spawn"]
        /\ cfg' \in LoadedConfigs
        /\ UNCHANGED ctx
     \/ pc' = [pc EXCEPT !.main = "panicked"] /\ ctx' = "cancelled"
          /\ UNCHANGED cfg
     \/ pc' = [pc EXCEPT !.main = "fatal"] /\ UNCHANGED <<ctx, cfg>>
  /\ UNCHANGED <<b, dp, m, err, line, calls, viper, sigCh, signalled,
                 logged, p>>

\* appLogger := logger.New(cfg); go func() { ... }()
SpawnHandler ==
  /\ pc.main = "spawn"
  /\ pc' = [main |-> "log", handler |-> "recv"]
  /\ UNCHANGED <<cfg, b, dp, m, err, line, calls, viper, mainVars, p>>

\* the three messages main logs before it creates the service
LogStartup ==
  /\ pc.main = "log"
  /\ logged' = logged
       \cup {"Starting tempest_influx", "Service configuration loaded"}
       \cup (IF cfg.Debug THEN {"Configuration loaded"} ELSE {})
  /\ pc' = [pc EXCEPT !.main = "create"]
  /\ UNCHANGED <<cfg, b, dp, m, err, line, calls, viper, sigCh, ctx,
                 signalled, p>>

\* <-sigCh
Receive ==
  /\ ~Ended
  /\ pc.handler = "recv"
  /\ sigCh > 0
  /\ sigCh' = sigCh - 1
  /\ pc' = [pc EXCEPT !.handler = "cancel"]
  /\ UNCHANGED <<cfg, b, dp, m, err, line, calls, viper, ctx, signalled,
                 logged, p>>

\* appLogger.Info("Received shutdown signal"); cancel()
Cancel ==
  /\ ~Ended
  /\ pc.handler = "cancel"
  /\ logged' = logged \cup {"Received shutdown signal"}
  /\ ctx' = "cancelled"
  /\ pc' = [pc EXCEPT !.handler = "done"]
  /\ UNCHANGED <<cfg, b, dp, m, err, line, calls, viper, sigCh, signalled, p>>

\* service, err := processor.NewWeatherService(cfg, appLogger): a service,
\* or an error, which main logs before it returns (the deferred cancel runs)
CreateService ==
  /\ pc.main = "create"
  /\ \/ pc' = [pc EXCEPT !.main = "run"] /\ UNCHANGED <<ctx, logged>>
     \/ /\ pc' = [pc EXCEPT !.main = "exited"]
        /\ logged' = logged \cup {"Failed to create weather service"}
        /\ ctx' = "cancelled"
  /\ UNCHANGED <<cfg, b, dp, m, err, line, calls, viper, sigCh, signalled, p>>

\* service.Start(ctx) returns context.Canceled once ctx is cancelled
StartReturns ==
  /\ pc.main = "run"
  /\ ctx = "cancelled"
  /\ err' = "context.Canceled"
  /\ pc' = [pc EXCEPT !.main = "check"]
  /\ UNCHANGED <<cfg, b, dp, m, line, calls, viper, mainVars, p>>

\* if err != nil && err != context.Canceled { appLogger.Error(...) }, and
\* the return of main with its deferred cancel
Exit ==
  /\ pc.main = "check"
  /\ logged' = IF err \notin {"none", "context.Canceled"}
               THEN logged \cup {"Weather service error"} ELSE logged
  /\ ctx' = "cancelled"
  /\ pc' = [pc EXCEPT !.main = "exited"]
  /\ UNCHANGED <<cfg, b, dp, m, err, line, calls, viper, sigCh, signalled, p>>

MainStep ==
  Notify \/ LoadConfig \/ SpawnHandler \/ LogStartup \/ CreateService
    \/ StartReturns \/ Exit

HandlerStep == Receive \/ Cancel

NextMain == MainStep \/ HandlerStep \/ Deliver

\* both goroutines are run whenever they can take a step
SpecMain ==
  InitMain /\ [][NextMain]_vars /\ WF_vars(MainStep) /\ WF_vars(HandlerStep)

-----------------------------------------------------------------------------
(* PrecipType.String.  p is the PrecipType; line is the string returned,   *)
(* and pc tells whether the call returned or panicked.                     *)

\* "none", "rain", "hail", "rain+hail"
PrecipitationTypeStrings ==
  <<<<110, 111, 110, 101>>, <<114, 97, 105, 110>>, <<104, 97, 105, 108>>,
    <<114, 97, 105, 110, 43, 104, 97, 105, 108>>>>

\* "unknown"
UnknownText == <<117, 110, 107, 110, 111, 119, 110>>

\* slice[i] in Go: the element counted from 0, or a run-time panic for an
\* index out of range
Index(slice, i) ==
  IF i >= 0 /\ i < Len(slice)
  THEN [panic |-> FALSE, value |-> slice[i + 1]]
  ELSE [panic |-> TRUE, value |-> <<>>]

\* (p PrecipType) String()
String(precip) ==
  LET types == PrecipitationTypeStrings IN
  IF precip < Len(types) THEN Index(types, precip)
  ELSE [panic |-> FALSE, value |-> UnknownText]

InitPrecip ==
  /\ cfg = NoConfig
  /\ b = NoPayload
  /\ dp = [val |-> 0, failed |-> FALSE]
  /\ m = NilData
  /\ err = NoError
  /\ line = <<>>
  /\ pc = "start"
  /\ calls = <<>>
  /\ viper = <<>>
  /\ sigCh = 0
  /\ ctx = "background"
  /\ signalled = ""
  /\ logged = {}
  /\ p \in (-MaxPrecip)..MaxPrecip

\* line := p.String()
StringStep ==
  /\ pc = "start"
  /\ LET r == String(p) IN
       /\ line' = r.value
       /\ pc' = IF r.panic THEN "panicked" ELSE "returned"
  /\ UNCHANGED <<cfg, b, dp, m, err, calls, viper, mainVars, p>>

NextPrecip == StringStep

SpecPrecip == InitPrecip /\ [][NextPrecip]_vars

-----------------------------------------------------------------------------
(* Claims about Marshal *)

\* the keys of a map in ascending order of Go's string comparison
RECURSIVE KeysAscending(_)
KeysAscending(keys) ==
  IF keys = {} THEN <<>>
  ELSE LET least == CHOOSE k \in keys : \A x \in keys \ {k} : StrLess(k, x)
       IN  <<least>> \o KeysAscending(keys \ {least})

\* key=value,key=value,... for the keys in the given order
RECURSIVE CommaSeparated(_, _)
CommaSeparated(mp, order) ==
  IF order = <<>> THEN <<>>
  ELSE Head(order) \o <<61>> \o mp[Head(order)]
         \o (IF Len(order) = 1 THEN <<>>
             ELSE <<44>> \o CommaSeparated(mp, Tail(order)))

\* measurement,tags fields timestamp\n with the pairs in the given orders
LineOf(mm, tagOrder, fieldOrder) ==
  mm.Name \o <<44>> \o CommaSeparated(mm.Tags, tagOrder) \o <<32>>
    \o CommaSeparated(mm.Fields, fieldOrder) \o <<32>>
    \o FmtD(mm.Timestamp) \o <<10>>

Marshalled == pc = "marshalled" /\ m.Tags # <<>> /\ m.Fields # <<>>

\* C1: for a Record with tags and fields, Marshal emits the tag pairs in
\* ascending order of tag key and the field pairs in ascending order of field
\* key, also when one key is a proper prefix of another
C1_SortedByKey ==
  Marshalled =>
    line = LineOf(m, KeysAscending(DOMAIN m.Tags), KeysAscending(DOMAIN m.Fields))

\* C2: for a Record with tags and fields, the line is the name, a comma, the
\* tag pairs separated by commas, a space, the field pairs separated by
\* commas, a space, the timestamp in decimal and a newline, and every tag and
\* every field of the Record is in it exactly once
C2_Layout ==
  Marshalled =>
    \E tagOrder \in Orders(m.Tags), fieldOrder \in Orders(m.Fields) :
      line = LineOf(m, tagOrder, fieldOrder)

\* C2: a Record with two tags and two fields, one value holding a comma, has
\* been marshalled
C2_Witness ==
  /\ Marshalled
  /\ Cardinality(DOMAIN m.Tags) = 2
  /\ Cardinality(DOMAIN m.Fields) = 2
  /\ \E k \in DOMAIN m.Tags : m.Tags[k] = <<50, 44, 51>>

-----------------------------------------------------------------------------
(* Claims about Parse *)

Returned == pc = "returned"

\* Parse returned (nil, nil): the packet was ignored
Ignored == m.nil /\ err.nil

\* the packet is one JSON document and nothing else
WholeJSON(doc) == doc.syntax /\ ~doc.trailing

\* the string under "type" of the packet, <<>> when there is none
TypeText(doc) ==
  IF doc.syntax /\ Member(doc.top, "type").k = "str"
  THEN Member(doc.top, "type").s ELSE <<>>

KnownTypes ==
  {<<111, 98, 115, 95, 115, 116>>,
   <<114, 97, 112, 105, 100, 95, 119, 105, 110, 100>>,
   <<101, 118, 116, 95, 112, 114, 101, 99, 105, 112>>,
   <<101, 118, 116, 95, 115, 116, 114, 105, 107, 101>>,
   <<111, 98, 115, 95, 97, 105, 114>>,
   <<111, 98, 115, 95, 115, 107, 121>>,
   <<100, 101, 118, 105, 99, 101, 95, 115, 116, 97, 116, 117, 115>>,
   <<104, 117, 98, 95, 115, 116, 97, 116, 117, 115>>}

\* the JSON array a variant reads: the first inner array of "obs", or "evt"
ArrayRead(doc) ==
  LET t == TypeText(doc)
      obs == Member(doc.top, "obs")
  IN  IF t \in {Lit.evt_precip, Lit.evt_strike}
      THEN Member(doc.top, "evt").a
      ELSE IF obs.k = "arr" /\ Len(obs.a) >= 1 THEN obs.a[1].a ELSE <<>>

\* the packet with that array cut to its first len elements
CutArray(doc, len) ==
  LET key == IF TypeText(doc) \in {Lit.evt_precip, Lit.evt_strike}
             THEN "evt" ELSE "obs"
      cut == JArr(SubSeq(ArrayRead(doc), 1, len))
  IN  [doc EXCEPT !.top.o =
         [x \in DOMAIN @ |->
            IF x = key THEN (IF key = "evt" THEN cut ELSE JArr(<<cut>>))
            ELSE @[x]]]

\* the least array length each array-based variant takes
MinLength(t) ==
  CASE t = Lit.obs_st -> 18
    [] t = Lit.obs_air -> 8
    [] t = Lit.obs_sky -> 14
    [] t = Lit.evt_precip -> 1
    [] t = Lit.evt_strike -> 3

ArrayTypes ==
  {Lit.obs_st, Lit.obs_air, Lit.obs_sky, Lit.evt_precip, Lit.evt_strike}

\* C3: Parse ends with a Record and no error, with neither, or with an error
\* and no Record; never with a Record and an error
C3_Outcomes ==
  Returned =>
    /\ ~(~m.nil /\ ~err.nil)
    /\ (~err.nil => m = NilData)

\* C3: an extractor has failed after Parse had made its Data
C3_Witness == Returned /\ ~err.nil /\ "ErrInsufficientData" \in err.is

\* C4: a payload that is valid JSON, here an object with a string under
\* "type", and whose type is none of the eight is ignored, whatever else it
\* holds
C4_UnknownTypeIgnored ==
  (Returned /\ WholeJSON(b) /\ b.top.k = "obj"
     /\ Member(b.top, "type").k = "str" /\ TypeText(b) \notin KnownTypes) =>
    Ignored

\* C5: with Rapid_Wind false a packet of type rapid_wind is ignored, whatever
\* the rest of the payload is
C5_RapidWindDisabledIgnored ==
  (Returned /\ ~cfg.Rapid_Wind /\ TypeText(b) = Lit.rapid_wind) => Ignored

\* C6: a payload that is not, as a whole, one valid JSON document gives a
\* decode error and no Record
C6_InvalidJSONRejected ==
  (Returned /\ ~WholeJSON(b)) => (m.nil /\ err = UnmarshalError)

C8_ObsStRecord ==
  (Returned /\ ~DecodeFails(b) /\ TypeText(b) = Lit.obs_st
     /\ Len(ArrayRead(b)) >= 18) =>
    /\ ~m.nil /\ err.nil
    /\ DOMAIN m.Fields =
         {Lit.battery, Lit.dew_point, Lit.illuminance, Lit.p, Lit.precipitation,
          Lit.precipitation_type, Lit.solar_radiation, Lit.strike_count,
          Lit.strike_distance, Lit.temp, Lit.uv, Lit.wind_avg,
          Lit.wind_direction, Lit.wind_gust, Lit.wind_lull}
    /\ Cardinality(DOMAIN m.Fields) = 15
    /\ Lit.station \in DOMAIN m.Tags
    /\ m.Tags[Lit.station] = DecString(Member(b.top, "serial_number"))

\* C8: an obs_st packet of 18 elements that names its station has been parsed
C8_Witness ==
  /\ Returned /\ ~DecodeFails(b) /\ TypeText(b) = Lit.obs_st
  /\ Len(ArrayRead(b)) = 18
  /\ Member(b.top, "serial_number") = JStr(StationName)
  /\ ~m.nil

\* C9: packets of type hub_status, evt_precip and evt_strike are ignored
C9_StatusAndEventsIgnored ==
  (Returned /\ ~DecodeFails(b)
     /\ TypeText(b) \in {Lit.hub_status, Lit.evt_precip, Lit.evt_strike}) =>
    Ignored

\* C10: the measurement name of a Record is the one of its report type
C10_MeasurementName ==
  (Returned /\ ~m.nil) =>
    LET t == TypeText(b) IN
    /\ t \in {Lit.obs_st, Lit.rapid_wind, Lit.obs_air, Lit.obs_sky}
         => m.Name = <<119, 101, 97, 116, 104, 101, 114>>
    /\ t \in {Lit.evt_precip, Lit.evt_strike}
         => m.Name = <<119, 101, 97, 116, 104, 101, 114, 95, 101, 118, 101, 110, 116, 115>>
    /\ t = Lit.device_status => m.Name = t
    /\ t = Lit.hub_status => m.Name = t
    /\ t \in KnownTypes

\* C10: a Record of an event has been returned
C10_Witness == Returned /\ ~m.nil /\ TypeText(b) = Lit.evt_strike

\* the serials of the packet
SerialNumber(doc) == DecString(Member(doc.top, "serial_number"))
HubSn(doc) == DecString(Member(doc.top, "hub_sn"))

\* C11: the tags of a Record are exactly those of its variant: station;
\* station and event_type; station and sensor_type; device and hub (hub from
\* hub_sn); hub alone for hub_status, from the serial_number of the hub's
\* packet
C11_Tags ==
  (Returned /\ ~m.nil) =>
    LET t == TypeText(b)
        sn == SerialNumber(b)
    IN  /\ t \in {Lit.obs_st, Lit.rapid_wind} => m.Tags = (Lit.station :> sn)
        /\ t = Lit.evt_precip =>
             m.Tags = (Lit.station :> sn) @@ (Lit.event_type :> Lit.rain_start)
        /\ t = Lit.evt_strike =>
             m.Tags = (Lit.station :> sn)
                        @@ (Lit.event_type :> Lit.lightning_strike)
        /\ t = Lit.obs_air =>
             m.Tags = (Lit.station :> sn) @@ (Lit.sensor_type :> Lit.air)
        /\ t = Lit.obs_sky =>
             m.Tags = (Lit.station :> sn) @@ (Lit.sensor_type :> Lit.sky)
        /\ t = Lit.device_status =>
             m.Tags = (Lit.device :> sn) @@ (Lit.hub :> HubSn(b))
        /\ t = Lit.hub_status => m.Tags = (Lit.hub :> sn)

\* C11: a device_status Record of a packet with both serials has been returned
C11_Witness ==
  /\ Returned /\ ~m.nil /\ TypeText(b) = Lit.device_status
  /\ SerialNumber(b) = StationName /\ HubSn(b) = HubName

\* C12: the Bucket of a Record is cfg.Influx_Bucket, but for a rapid_wind
\* Record with a non-empty cfg.Influx_Bucket_Rapid_Wind, where it is that one
C12_Bucket ==
  (Returned /\ ~m.nil) =>
    m.Bucket = IF TypeText(b) = Lit.rapid_wind
                    /\ cfg.Influx_Bucket_Rapid_Wind # <<>>
               THEN cfg.Influx_Bucket_Rapid_Wind
               ELSE cfg.Influx_Bucket

\* C12: a rapid_wind Record has been returned with the override as its Bucket
C12_Witness ==
  /\ Returned /\ ~m.nil /\ TypeText(b) = Lit.rapid_wind
  /\ cfg.Influx_Bucket_Rapid_Wind = RapidBucketName
  /\ m.Bucket = RapidBucketName

\* q/4 printed with two decimals, q/4 rounded to the nearest whole number
TwoDecimals(q) ==
  LET a == IF q < 0 THEN -q ELSE q
      cents == CASE a % 4 = 0 -> <<48, 48>> [] a % 4 = 1 -> <<50, 53>>
                 [] a % 4 = 2 -> <<53, 48>> [] a % 4 = 3 -> <<55, 53>>
  IN  (IF q < 0 THEN <<45>> ELSE <<>>) \o Digits(a \div 4) \o <<46>> \o cents
Nearest(q) ==
  CHOOSE z \in (q \div 4 - 1)..(q \div 4 + 1) :
    \/ 4 * z - q \in -1..1
    \/ 4 * z - q = 2 /\ q > 0
    \/ 4 * z - q = -2 /\ q < 0

\* the "ob" of the packet when it is an array of exactly three numbers
IsTriple(doc) ==
  LET ob == Member(doc.top, "ob") IN
  ob.k = "arr" /\ Len(ob.a) = 3 /\ \A i \in 1..3 : ob.a[i].k = "num"

\* C13: with Rapid_Wind set, ob = [t, speed, dir] gives exactly the fields
\* rapid_wind_speed (two decimals) and rapid_wind_direction (dir rounded to
\* the nearest integer, printed plain), and Timestamp t; [1640, 5.5, 270]
\* gives "5.50", "270" and 1640
C13_RapidWind ==
  (Returned /\ ~DecodeFails(b) /\ cfg.Rapid_Wind
     /\ TypeText(b) = Lit.rapid_wind /\ IsTriple(b)) =>
    LET ob == Member(b.top, "ob").a IN
    /\ ~m.nil /\ err.nil
    /\ DOMAIN m.Fields = {Lit.rapid_wind_speed, Lit.rapid_wind_direction}
    /\ m.Fields[Lit.rapid_wind_speed] = TwoDecimals(ob[2].n)
    /\ m.Fields[Lit.rapid_wind_direction] = FmtD(Nearest(ob[3].n))
    /\ ob[1].n % 4 = 0 => 4 * m.Timestamp = ob[1].n
    /\ ob = <<JNum(4 * 1640), JNum(22), JNum(4 * 270)>> =>
         /\ m.Fields[Lit.rapid_wind_speed] = <<53, 46, 53, 48>>
         /\ m.Fields[Lit.rapid_wind_direction] = <<50, 55, 48>>
         /\ m.Timestamp = 1640

\* C13: the triple [1640, 5.5, 270] has been parsed with Rapid_Wind set
C13_Witness ==
  /\ Returned /\ ~m.nil /\ cfg.Rapid_Wind /\ TypeText(b) = Lit.rapid_wind
  /\ IsTriple(b)
  /\ Member(b.top, "ob").a[3].n = 4 * 270

\* C14: with Rapid_Wind set, a rapid_wind packet whose "ob" does not hold
\* exactly three elements (fewer, more, or no "ob") gets ErrInsufficientData
\* and no Record
C14_RapidWindLength ==
  (Returned /\ ~DecodeFails(b) /\ cfg.Rapid_Wind
     /\ TypeText(b) = Lit.rapid_wind
     /\ ~(Member(b.top, "ob").k = "arr" /\ Len(Member(b.top, "ob").a) = 3)) =>
    (m.nil /\ ~err.nil /\ "ErrInsufficientData" \in err.is)

\* the whole number that q/4 has before its fraction
WholePart(q) ==
  CHOOSE z \in (q \div 4)..(q \div 4 + 1) :
    IF q < 0 THEN 4 * z - q \in 0..3 ELSE q - 4 * z \in 0..3

\* the array in which a variant carries its sample time
TimeArray(doc) ==
  IF TypeText(doc) = Lit.rapid_wind THEN Member(doc.top, "ob").a
  ELSE ArrayRead(doc)

\* C15: the Timestamp of a Record is the sample time in its envelope:
\* element 0 of the variant's array, which the envelope therefore has, or the
\* scalar timestamp of a device_status or hub_status
C15_SampleTime ==
  (Returned /\ ~m.nil) =>
    IF TypeText(b) \in {Lit.device_status, Lit.hub_status}
    THEN 4 * m.Timestamp = DecNum(Member(b.top, "timestamp"))
    ELSE /\ Len(TimeArray(b)) >= 1
         /\ m.Timestamp = WholePart(DecNum(TimeArray(b)[1]))

\* C16: when dewpoint.Calculate fails for an obs_st or obs_air packet of
\* sufficient length, Parse still returns a Record and no error, with
\* dew_point made of the value returned; and a Record has a dew_point field
\* exactly when it is of obs_st or obs_air
C16_DewPoint ==
  /\ (Returned /\ ~DecodeFails(b) /\ dp.failed
        /\ TypeText(b) \in {Lit.obs_st, Lit.obs_air}
        /\ Len(ArrayRead(b)) >= MinLength(TypeText(b))) =>
       /\ ~m.nil /\ err.nil
       /\ Lit.dew_point \in DOMAIN m.Fields
       /\ m.Fields[Lit.dew_point] = TwoDecimals(dp.val)
  /\ (Returned /\ ~m.nil) =>
       (Lit.dew_point \in DOMAIN m.Fields
          <=> TypeText(b) \in {Lit.obs_st, Lit.obs_air})

\* C16: an obs_air Record has been returned after dewpoint.Calculate failed
\* with a value other than 0
C16_Witness ==
  /\ Returned /\ ~m.nil /\ TypeText(b) = Lit.obs_air
  /\ dp.failed /\ dp.val # 0

\* C17: an obs_sky Record has the field daily_rain only when element 11 of
\* the array is a number; when it is null the Record has the 10 other fields
\* and no daily_rain
C17_DailyRain ==
  (Returned /\ ~m.nil /\ TypeText(b) = Lit.obs_sky) =>
    /\ Lit.daily_rain \in DOMAIN m.Fields => ArrayRead(b)[12].k = "num"
    /\ ArrayRead(b)[12].k = "null" =>
         /\ Lit.daily_rain \notin DOMAIN m.Fields
         /\ Cardinality(DOMAIN m.Fields) = 10

\* the reset_flags string of the packet
ResetFlagsOf(doc) == DecString(Member(doc.top, "reset_flags"))

C19_Isolation ==
  \A i \in 1..NumCalls :
    calls[i].pc = "returned" =>
      LET alone == Parse(cfg, calls[i].b, calls[i].d) IN
      /\ calls[i].m = alone.m
      /\ calls[i].err = alone.err

\* C19: a call has returned a Record while another call, entered with a
\* packet of another type and already decoded, has not yet returned
C19_Witness ==
  \E i, j \in 1..NumCalls :
    /\ calls[i].pc = "returned" /\ ~calls[i].m.nil
    /\ calls[j].pc = "switch"
    /\ TypeText(calls[i].b) # TypeText(calls[j].b)

\* the conditions under which the claim has Validate return an error
Rejected(c) ==
  \/ c.Influx_URL = <<>>
  \/ urlParseFails(c.Influx_URL)
  \/ c.Influx_Token = <<>>
  \/ c.Influx_Bucket = <<>>
  \/ c.Listen_Address # <<>> /\ ~ContainsByte(c.Listen_Address, 58)
  \/ c.Buffer <= 0

BucketGiven ==
  \/ "influx_bucket" \in DOMAIN viper.args
  \/ "influx_bucket" \in DOMAIN viper.environ
  \/ "influx_bucket" \in DOMAIN viper.disk.settings

\* C21: Load, run with a configuration in which influx_bucket is nowhere
\* set and everything else is valid, does not stop at Validate: Validate
\* returns no error and Load returns the Config
C21_BucketOptional ==
  (pc \in {"loaded", "panicked"} /\ ~BucketGiven) =>
    (pc = "loaded" /\ err.nil)

\* C22: in the Config that Load returns, Debug implies Verbose
C22_DebugImpliesVerbose ==
  pc = "loaded" => (cfg.Debug => cfg.Verbose)

\* main has returned after Start returned context.Canceled on the
\* cancelled context, and has logged no service error
GracefulExit ==
  /\ pc.main = "exited"
  /\ ctx = "cancelled"
  /\ err = "context.Canceled"
  /\ "Weather service error" \notin logged

StartupFailed ==
  \/ pc.main \in {"panicked", "fatal"}
  \/ "Failed to create weather service" \in logged

C24_PrecipString ==
  pc # "start" =>
    /\ pc = "returned"
    /\ line = CASE p = 0 -> <<110, 111, 110, 101>>
                [] p = 1 -> <<114, 97, 105, 110>>
                [] p = 2 -> <<104, 97, 105, 108>>
                [] p = 3 -> <<114, 97, 105, 110, 43, 104, 97, 105, 108>>
                [] OTHER -> UnknownText

\* C25: an error of the kind ErrInsufficientData carries the count its
\* extractor expects and the count of elements the packet's array held
C25_Counts ==
  (Returned /\ "ErrInsufficientData" \in err.is) =>
    err.counts = <<MinLength(TypeText(b)), Len(ArrayRead(b))>>

\* the operation Parse names when the extractor of a type fails
OperationName(t) ==
  CASE t = Lit.obs_st -> "parsing observation"
    [] t = Lit.rapid_wind -> "parsing rapid wind"
    [] t = Lit.evt_precip -> "parsing rain start event"
    [] t = Lit.evt_strike -> "parsing lightning strike"
    [] t = Lit.obs_air -> "parsing AIR observation"
    [] t = Lit.obs_sky -> "parsing Sky observation"
    [] t = Lit.device_status -> "parsing device status"
    [] t = Lit.hub_status -> "parsing hub status"

\* the array of the packet is shorter than its type requires
TooShort(doc) ==
  /\ TypeText(doc) \in ArrayTypes
  /\ Len(ArrayRead(doc)) < MinLength(TypeText(doc))

\* C26: an error returned by Parse starts with the name of the operation
\* that failed, the decoding or the extractor of the packet's type, and is
\* of the kind ErrInsufficientData exactly when the packet decoded and its
\* array was too short
C26_Wrapped ==
  (Returned /\ ~err.nil) =>
    /\ err.ops = IF DecodeFails(b) THEN <<"ERROR Could not Unmarshal">>
                 ELSE <<OperationName(TypeText(b))>>
    /\ "ErrInsufficientData" \in err.is <=> (~DecodeFails(b) /\ TooShort(b))

\* C26: Parse has returned the error of a too short obs_st array, wrapped
C26_Witness ==
  /\ Returned /\ ~err.nil /\ ~DecodeFails(b)
  /\ TypeText(b) = Lit.obs_st /\ TooShort(b)
  /\ err.ops = <<"parsing observation">>
  /\ "ErrInsufficientData" \in err.is

\* sub is a run of consecutive bytes of str
Contains(str, sub) ==
  \E i \in 1..(Len(str) - Len(sub) + 1) :
    SubSeq(str, i, i + Len(sub) - 1) = sub

\* the bytes of the pairs of a map: each key, an equals sign, its value
RECURSIVE PairsLength(_, _)
PairsLength(mp, keys) ==
  IF keys = {} THEN 0
  ELSE LET k == CHOOSE x \in keys : TRUE
       IN  Len(k) + 1 + Len(mp[k]) + PairsLength(mp, keys \ {k})

\* the commas between n pairs
Commas(n) == IF n = 0 THEN 0 ELSE n - 1

\* C27: the line holds every key=value of the Record byte for byte, also
\* when the value has a comma, a space or an equals sign, and has no byte
\* besides the name, the pairs, the separators and the timestamp
C27_NoEscaping ==
  pc = "marshalled" =>
    /\ \A k \in DOMAIN m.Tags : Contains(line, k \o <<61>> \o m.Tags[k])
    /\ \A k \in DOMAIN m.Fields : Contains(line, k \o <<61>> \o m.Fields[k])
    /\ Len(line) =
         Len(m.Name) + 1
           + PairsLength(m.Tags, DOMAIN m.Tags)
           + Commas(Cardinality(DOMAIN m.Tags)) + 1
           + PairsLength(m.Fields, DOMAIN m.Fields)
           + Commas(Cardinality(DOMAIN m.Fields)) + 1
           + Len(FmtD(m.Timestamp)) + 1

\* C27: a Record has been marshalled that has a tag value with a comma and a
\* field value with a space and an equals sign
C27_Witness ==
  /\ pc = "marshalled"
  /\ \E k \in DOMAIN m.Tags : m.Tags[k] = <<50, 44, 51>>
  /\ \E k \in DOMAIN m.Fields : m.Fields[k] = <<99, 32, 100, 61, 101>>
  /\ Contains(line, <<61, 50, 44, 51>>)
  /\ Contains(line, <<61, 99, 32, 100, 61, 101>>)

\* C28: a call of Marshal leaves the Record as it was, and the calls that
\* have returned, whatever the orders in which their loops took the maps,
\* have returned the same line
C28_Pure ==
  [][pc = "marshal" =>
       /\ m' = m
       /\ \A i, j \in Marshallers :
            (calls'[i].pc = "returned" /\ calls'[j].pc = "returned") =>
              calls'[i].line = calls'[j].line]_vars

\* C28: both goroutines have marshalled a Record of two tags and two fields
C28_Witness ==
  /\ \A i \in Marshallers : calls[i].pc = "returned" /\ calls[i].line # <<>>
  /\ Cardinality(DOMAIN m.Tags) = 2
  /\ Cardinality(DOMAIN m.Fields) = 2

ObsTypes == {Lit.obs_st, Lit.obs_air, Lit.obs_sky}

\* the packet with only the first inner array left in its "obs"
FirstOnly(doc) ==
  [doc EXCEPT !.top.o = [@ EXCEPT !["obs"] = JArr(<<@.a[1]>>)]]

\* C30: of an observation packet that decodes, Parse reads the first inner
\* array of "obs" only: with several inner arrays it returns what it returns
\* for the packet with the first one alone, a Record and no error when that
\* one is long enough; with "obs" absent or empty it returns the error
\* ErrInsufficientData of an array of length 0
C30_FirstObs ==
  (Returned /\ ~DecodeFails(b) /\ TypeText(b) \in ObsTypes) =>
    LET obs == Member(b.top, "obs")
        min == MinLength(TypeText(b))
    IN  /\ (obs.k = "arr" /\ Len(obs.a) >= 2) =>
             LET r == Parse(cfg, FirstOnly(b), dp) IN
             /\ m = r.m
             /\ err = r.err
             /\ "ErrInsufficientData" \in err.is <=> Len(obs.a[1].a) < min
             /\ Len(obs.a[1].a) >= min => ~m.nil
        /\ (obs.k = "null" \/ (obs.k = "arr" /\ Len(obs.a) = 0)) =>
             /\ m.nil
             /\ "ErrInsufficientData" \in err.is
             /\ err.counts = <<min, 0>>

\* C30: an obs_sky Record has been returned for a packet with two inner
\* arrays, the second too short for any type
C30_Witness ==
  /\ Returned /\ TypeText(b) = Lit.obs_sky
  /\ Len(Member(b.top, "obs").a) = 2
  /\ Len(Member(b.top, "obs").a[2].a) = 3
  /\ ~m.nil /\ err.nil

====
